---------------------------- MODULE Spec2Model ----------------------------
(***************************************************************************)
(* A model of two layout elements of borb:                                 *)
(*                                                                         *)
(*  - GradientColoredDisjointShape._do_layout_without_padding              *)
(*    (src/borb/pdf/canvas/layout/shape/gradient_colored_disjoint_shape.py)*)
(*    under the specification Spec;                                        *)
(*  - CheckBox._init_widget_dictionary and CheckBox._paint_content_box     *)
(*    (src/borb/pdf/canvas/layout/forms/check_box.py)                      *)
(*    under the specification SpecCheckBox.                                *)
(*                                                                         *)
(* Numbers.  Coordinates are Decimals in the code.  The model holds them   *)
(* exactly, as integer numerators over one denominator per axis (den):     *)
(* the point <<a, b>> of `lines` is (a / den[1], b / den[2]).  Distances   *)
(* are compared by their squares, so that math.sqrt never has to be        *)
(* approximated; the interpolation parameter t = d / n is held as the      *)
(* reduced fraction t^2 = <<p, q>> (d and n are never negative, so t^2     *)
(* determines t).                                                          *)
(***************************************************************************)
EXTENDS Integers, Sequences, FiniteSets

\* Bound of the model: at most MaxLines segments in a shape.
MaxLines == 2

\* Bound of the model: at most MaxCalls calls of CheckBox._paint_content_box.
MaxCalls == 3

VARIABLES
    \* ---- GradientColoredDisjointShape -------------------------------
    shape,          \* shape._lines: the source shape's segments (constructor argument)
    lines,          \* self._lines: the segments, numerators over den
    den,            \* <<denominator of x, denominator of y>> of lines
    gradient_type,  \* self._gradient_type
    from_color,     \* self._from_color (RGB)
    to_color,       \* self._to_color (RGB)
    bounding_box,   \* the target rectangle passed to the render
    pc,             \* position of the render
    extrema,        \* the locals min_x, min_y, max_x, max_y
    n,              \* the local n, held as n^2 in the unit of NormSq
    idx,            \* the loop's position in self._lines
    ts,             \* the value of d / n used for each segment drawn so far
    content,        \* the local content: the stroke commands accumulated
    page,           \* the page's content stream: what was appended to it
    layout_rect,    \* the rectangle set_bounding_box recorded on the shape
    returned,       \* the rectangle the render returned
    raised,         \* the exception that left the render, or "none"
    \* ---- CheckBox ---------------------------------------------------
    widget_dictionary,  \* self._widget_dictionary, None or the dictionary
    annots,             \* page -> the page's Annots list, or Absent
    acroform,           \* document -> the catalog's AcroForm Fields list, or Absent
    font_resources,     \* page -> the fonts registered in the page's Resources
    xref,               \* the documents whose root holds an XRef
    last_page,          \* the page argument of the latest _paint_content_box call
    calls               \* number of _paint_content_box calls made

gvars == <<shape, lines, den, gradient_type, from_color, to_color,
           bounding_box, pc, extrema, n, idx, ts, content, page,
           layout_rect, returned, raised>>
cvars == <<widget_dictionary, annots, acroform, font_resources, xref,
           last_page, calls>>
vars == <<gvars, cvars>>

None == [none |-> TRUE]

-----------------------------------------------------------------------------
(* Arithmetic helpers *)

Abs(a) == IF a < 0 THEN -a ELSE a

Min2(a, b) == IF a <= b THEN a ELSE b

Max2(a, b) == IF a >= b THEN a ELSE b

RECURSIVE Gcd(_, _)
Gcd(a, b) == IF b = 0 THEN Abs(a) ELSE Gcd(b, a % b)

\* Python's min() and max() of a list; they raise ValueError on an empty
\* list, which the actions guard (MinRaises), so the value for {} is unused.
SetMin(S) == IF S = {} THEN 0 ELSE CHOOSE a \in S : \A b \in S : a <= b

SetMax(S) == IF S = {} THEN 0 ELSE CHOOSE a \in S : \A b \in S : a >= b

RECURSIVE SetGcd(_)
SetGcd(S) == IF S = {} THEN 0
             ELSE LET a == CHOOSE b \in S : TRUE
                  IN  Gcd(a, SetGcd(S \ {a}))

\* The reduced fraction a / b (b > 0).
Reduce(a, b) == LET g == Gcd(a, b) IN <<a \div g, b \div g>>

-----------------------------------------------------------------------------
(* Geometry of DisjointShape: the coordinates of a segment list *)

Xs(ls) == UNION {{ls[j][1][1], ls[j][2][1]} : j \in 1..Len(ls)}

Ys(ls) == UNION {{ls[j][1][2], ls[j][2][2]} : j \in 1..Len(ls)}

\* ls over d, with a common factor of each axis removed (the same points).
Normalise(ls, d) ==
    LET gx == SetGcd(Xs(ls) \cup {d[1]})
        gy == SetGcd(Ys(ls) \cup {d[2]})
    IN  [lines |-> [j \in 1..Len(ls) |->
                       <<<<ls[j][1][1] \div gx, ls[j][1][2] \div gy>>,
                         <<ls[j][2][1] \div gx, ls[j][2][2] \div gy>>>>],
         den   |-> <<d[1] \div gx, d[2] \div gy>>]

\* DisjointShape.get_width / get_height: the extent of the bounding box of
\* all endpoints (numerator over d[1], d[2]).
get_width(ls) == SetMax(Xs(ls)) - SetMin(Xs(ls))

get_height(ls) == SetMax(Ys(ls)) - SetMin(Ys(ls))

\* DisjointShape.scale_to_fit(max_width, max_height): every coordinate is
\* scaled, per axis, so that the bounding box is max_width by max_height;
\* an axis of extent 0 is not scaled.
scale_to_fit(ls, d, max_width, max_height) ==
    LET w  == get_width(ls)
        h  == get_height(ls)
        sx == IF w = 0 THEN 1 ELSE max_width
        sy == IF h = 0 THEN 1 ELSE max_height
        dx == IF w = 0 THEN d[1] ELSE w
        dy == IF h = 0 THEN d[2] ELSE h
    IN  Normalise([j \in 1..Len(ls) |->
                      <<<<ls[j][1][1] * sx, ls[j][1][2] * sy>>,
                        <<ls[j][2][1] * sx, ls[j][2][2] * sy>>>>],
                  <<dx, dy>>)

\* DisjointShape.move_to(lower_left_x, lower_left_y): every coordinate is
\* shifted so that the bounding box's lower left corner is the given point
\* (numerators over d).
move_to(ls, d, lower_left_x, lower_left_y) ==
    LET delta_x == lower_left_x - SetMin(Xs(ls))
        delta_y == lower_left_y - SetMin(Ys(ls))
    IN  [j \in 1..Len(ls) |->
            <<<<ls[j][1][1] + delta_x, ls[j][1][2] + delta_y>>,
              <<ls[j][2][1] + delta_x, ls[j][2][2] + delta_y>>>>]

-----------------------------------------------------------------------------
(* Colours.  An RGB colour is <<r, g, b>>, an HSV colour <<hue, saturation, *)
(* value>> with the hue in degrees.  The endpoint colours of the model are  *)
(* corners of the RGB cube, whose HSV form is integral.                     *)

\* HSVColor.from_rgb: the standard RGB -> HSV conversion; hue 0 when
\* red = green = blue.
from_rgb(c) ==
    LET r     == c[1]
        g     == c[2]
        b     == c[3]
        mx    == Max2(r, Max2(g, b))
        mn    == Min2(r, Min2(g, b))
        delta == mx - mn
        hue   == IF delta = 0 THEN 0
                 ELSE IF mx = r THEN 60 * (((g - b) \div delta) % 6)
                 ELSE IF mx = g THEN 60 * (((b - r) \div delta) + 2)
                 ELSE 60 * (((r - g) \div delta) + 4)
        sat   == IF mx = 0 THEN 0 ELSE delta \div mx
    IN  <<hue, sat, mx>>

\* HSVColor.to_rgb at an integral HSV colour: the standard HSV -> RGB
\* conversion.
to_rgb(hsv) ==
    LET c  == hsv[3] * hsv[2]
        hp == (hsv[1] \div 60) % 6
        x  == c * (1 - Abs((hp % 2) - 1))
        m  == hsv[3] - c
        t3 == CASE hp = 0 -> <<c, x, 0>>
                [] hp = 1 -> <<x, c, 0>>
                [] hp = 2 -> <<0, c, x>>
                [] hp = 3 -> <<0, x, c>>
                [] hp = 4 -> <<x, 0, c>>
                [] OTHER  -> <<c, 0, x>>
    IN  <<t3[1] + m, t3[2] + m, t3[3] + m>>

\* start + (end - start) * (d / n), for one component (lines 144-146), with
\* t2 = (d / n)^2.  The value is kept exactly: the integer it equals when
\* the slope is 0, t = 0 or t = 1, and otherwise the term itself.
Lerp(start, end, t2) ==
    IF end = start \/ t2[1] = 0
        THEN [base |-> start, slope |-> 0, t2 |-> <<0, 1>>]
    ELSE IF t2[1] = t2[2]
        THEN [base |-> end, slope |-> 0, t2 |-> <<0, 1>>]
    ELSE [base |-> start, slope |-> end - start, t2 |-> t2]

\* HSVColor(h, s, v).to_rgb() (line 150): the RGB colour when h, s and v
\* are integral, and otherwise the colour named by its HSV terms.
StrokeColor(from, to, t2) ==
    LET sc == from_rgb(from)
        ec == from_rgb(to)
        h  == Lerp(sc[1], ec[1], t2)
        s  == Lerp(sc[2], ec[2], t2)
        v  == Lerp(sc[3], ec[3], t2)
    IN  IF h.slope = 0 /\ s.slope = 0 /\ v.slope = 0
        THEN [rgb |-> to_rgb(<<h.base, s.base, v.base>>), hsv |-> <<>>]
        ELSE [rgb |-> <<>>, hsv |-> <<h, s, v>>]

-----------------------------------------------------------------------------
(* GradientColoredDisjointShape._do_layout_without_padding *)

GradientType == {"DIAGONAL", "HORIZONTAL", "RADIAL", "VERTICAL"}

\* A render whose extrema default to 0 for an empty list instead of raising.
MinRaises_never(ls) == FALSE

\* min() and max() of an empty list raise ValueError (line 88 is the first
\* of them in the render).
MinRaises(ls) == Len(ls) = 0

\* Lines 88-91.  max_x is the largest of the segments' smaller x.
Extrema(ls) ==
    [min_x |-> SetMin({Min2(ls[j][1][1], ls[j][2][1]) : j \in 1..Len(ls)}),
     min_y |-> SetMin({Min2(ls[j][1][2], ls[j][2][2]) : j \in 1..Len(ls)}),
     max_x |-> SetMax({Min2(ls[j][1][1], ls[j][2][1]) : j \in 1..Len(ls)}),
     max_y |-> SetMax({Max2(ls[j][1][2], ls[j][2][2]) : j \in 1..Len(ls)})]

\* The square of the per-segment distance d (lines 130-139), measured from
\* the start point l[1] of the segment.  Unit: 1 / d[1]^2 (HORIZONTAL),
\* 1 / d[2]^2 (VERTICAL), 1 / (d[1] d[2])^2 (DIAGONAL),
\* 1 / (2 d[1] d[2])^2 (RADIAL, where mid_x = (max_x + min_x) / 2).
DistSq(type, e, l, d) ==
    CASE type = "DIAGONAL" ->
            (l[1][1] - e.min_x) * (l[1][1] - e.min_x) * d[2] * d[2]
          + (l[1][2] - e.min_y) * (l[1][2] - e.min_y) * d[1] * d[1]
      [] type = "HORIZONTAL" ->
            (l[1][1] - e.min_x) * (l[1][1] - e.min_x)
      [] type = "RADIAL" ->
            (2 * l[1][1] - (e.max_x + e.min_x)) * (2 * l[1][1] - (e.max_x + e.min_x)) * d[2] * d[2]
          + (2 * l[1][2] - (e.max_y + e.min_y)) * (2 * l[1][2] - (e.max_y + e.min_y)) * d[1] * d[1]
      [] type = "VERTICAL" ->
            (l[1][2] - e.min_y) * (l[1][2] - e.min_y)
      [] OTHER -> 0

\* The square of the norm n (lines 94-122), in the unit of DistSq.
NormSq(type, e, ls, d) ==
    CASE type = "DIAGONAL" ->
            (e.min_x - e.max_x) * (e.min_x - e.max_x) * d[2] * d[2]
          + (e.min_y - e.max_y) * (e.min_y - e.max_y) * d[1] * d[1]
      [] type = "HORIZONTAL" ->
            (e.max_x - e.min_x) * (e.max_x - e.min_x)
      [] type = "RADIAL" ->
            SetMax({DistSq("RADIAL", e, ls[j], d) : j \in 1..Len(ls)})
      [] type = "VERTICAL" ->
            (e.max_y - e.min_y) * (e.max_y - e.min_y)
      [] OTHER -> 1

\* d / n (lines 144-146), as the reduced fraction (d / n)^2; n is not 0.
Param(d2, n2) == Reduce(d2, n2)

\* What Decimal's division raises when the divisor is 0.
DivisionError(d2) == IF d2 = 0 THEN "InvalidOperation" ELSE "DivisionByZero"

\* "%f" of the number a / b: its value rounded to six decimals, in
\* millionths.
FormatF(a, b) == (2 * 1000000 * a + b) \div (2 * b)

\* A stroke command that moves to the end point and draws to the start.
StrokeCommand_reversed(color, l, d) ==
    [RG |-> color,
     m  |-> <<FormatF(l[2][1], d[1]), FormatF(l[2][2], d[2])>>,
     l  |-> <<FormatF(l[1][1], d[1]), FormatF(l[1][2], d[2])>>]

\* One "r g b RG x y m x y l S" of the content (lines 156-164).  The
\* "q <line width> w " the content starts with and the " Q" it ends with
\* (lines 87 and 167) are the same for every render and are not held.
StrokeCommand(color, l, d) ==
    [RG |-> color,
     m  |-> <<FormatF(l[1][1], d[1]), FormatF(l[1][2], d[2])>>,
     l  |-> <<FormatF(l[2][1], d[1]), FormatF(l[2][2], d[2])>>]

\* A layout rectangle with get_width() and get_height() exchanged.
LayoutRect_swapped(bb, ls, d) ==
    [x      |-> <<bb.x, 1>>,
     y      |-> Reduce((bb.y + bb.height) * d[2] - get_height(ls), d[2]),
     width  |-> Reduce(get_height(ls), d[2]),
     height |-> Reduce(get_width(ls), d[1])]

\* A layout rectangle anchored at the bottom of the target, not its top.
LayoutRect_bottom(bb, ls, d) ==
    [x      |-> <<bb.x, 1>>,
     y      |-> <<bb.y, 1>>,
     width  |-> Reduce(get_width(ls), d[1]),
     height |-> Reduce(get_height(ls), d[2])]

\* Lines 173-178: the rectangle of the rendered shape, each field a reduced
\* fraction.
LayoutRect(bb, ls, d) ==
    [x      |-> <<bb.x, 1>>,
     y      |-> Reduce((bb.y + bb.height) * d[2] - get_height(ls), d[2]),
     width  |-> Reduce(get_width(ls), d[1]),
     height |-> Reduce(get_height(ls), d[2])]

\* Line 79.
ScaleToFit ==
    /\ pc = "start"
    /\ LET r == scale_to_fit(lines, den, bounding_box.width, bounding_box.height)
       IN  /\ lines' = r.lines
           /\ den' = r.den
    /\ pc' = "scaled"
    /\ UNCHANGED <<shape, gradient_type, from_color, to_color, bounding_box,
                   extrema, n, idx, ts, content, page, layout_rect, returned,
                   raised, cvars>>

\* Lines 82-84.
MoveTo ==
    /\ pc = "scaled"
    /\ lines' = move_to(lines, den, bounding_box.x * den[1],
                        (bounding_box.y + bounding_box.height) * den[2]
                            - get_height(lines))
    /\ pc' = "moved"
    /\ UNCHANGED <<shape, den, gradient_type, from_color, to_color,
                   bounding_box, extrema, n, idx, ts, content, page,
                   layout_rect, returned, raised, cvars>>

\* Lines 87-126: the extrema and the norm.
ComputeNorm ==
    /\ pc = "moved"
    /\ IF MinRaises(lines)
       THEN /\ raised' = "ValueError"
            /\ pc' = "raised"
            /\ UNCHANGED <<extrema, n, idx>>
       ELSE /\ extrema' = Extrema(lines)
            /\ n' = NormSq(gradient_type, Extrema(lines), lines, den)
            /\ idx' = 1
            /\ pc' = "draw"
            /\ UNCHANGED raised
    /\ UNCHANGED <<shape, lines, den, gradient_type, from_color, to_color,
                   bounding_box, ts, content, page, layout_rect, returned,
                   cvars>>

\* Lines 129-164: one iteration of the loop over self._lines.
DrawLine ==
    /\ pc = "draw"
    /\ idx <= Len(lines)
    /\ LET d2 == DistSq(gradient_type, extrema, lines[idx], den)
       IN  IF n = 0
           THEN /\ raised' = DivisionError(d2)
                /\ pc' = "raised"
                /\ UNCHANGED <<idx, ts, content>>
           ELSE /\ ts' = Append(ts, Param(d2, n))
                /\ content' = Append(content,
                      StrokeCommand(StrokeColor(from_color, to_color, Param(d2, n)),
                                    lines[idx], den))
                /\ idx' = idx + 1
                /\ UNCHANGED <<raised, pc>>
    /\ UNCHANGED <<shape, lines, den, gradient_type, from_color, to_color,
                   bounding_box, extrema, n, page, layout_rect, returned,
                   cvars>>

\* Lines 167-170: self._append_to_content_stream(page, content).
AppendToContentStream ==
    /\ pc = "draw"
    /\ idx > Len(lines)
    /\ page' = Append(page, content)
    /\ pc' = "appended"
    /\ UNCHANGED <<shape, lines, den, gradient_type, from_color, to_color,
                   bounding_box, extrema, n, idx, ts, content, layout_rect,
                   returned, raised, cvars>>

\* Lines 173-184: set_bounding_box(layout_rect) and the return.
SetBoundingBox ==
    /\ pc = "appended"
    /\ layout_rect' = LayoutRect(bounding_box, lines, den)
    /\ returned' = LayoutRect(bounding_box, lines, den)
    /\ pc' = "done"
    /\ UNCHANGED <<shape, lines, den, gradient_type, from_color, to_color,
                   bounding_box, extrema, n, idx, ts, content, page, raised,
                   cvars>>

-----------------------------------------------------------------------------
(* The shapes and renders of the model *)

\* The endpoints of the model's shapes: the corners of a square and a third
\* point on the x axis, which makes scale factors such as 100 / 30 occur.
Points == ({0, 10} \X {0, 10}) \cup {<<30, 0>>}

Segments == Points \X Points

Shapes == UNION {[1..k -> Segments] : k \in 0..MaxLines}

\* A target rectangle with the two endpoint colours of the gradient.
Scenes ==
    {[bounding_box |-> [x |-> 0, y |-> 0, width |-> 100, height |-> 100],
      from_color |-> <<1, 0, 0>>, to_color |-> <<0, 0, 1>>],
     [bounding_box |-> [x |-> 10, y |-> 20, width |-> 30, height |-> 20],
      from_color |-> <<0, 1, 0>>, to_color |-> <<1, 1, 1>>]}

CheckBoxIdle ==
    /\ widget_dictionary = None
    /\ annots = <<>>
    /\ acroform = <<>>
    /\ font_resources = <<>>
    /\ xref = {}
    /\ last_page = None
    /\ calls = 0

Init ==
    /\ shape \in Shapes
    /\ lines = shape
    /\ den = <<1, 1>>
    /\ gradient_type \in GradientType
    /\ \E sc \in Scenes :
          /\ bounding_box = sc.bounding_box
          /\ from_color = sc.from_color
          /\ to_color = sc.to_color
    /\ pc = "start"
    /\ extrema = None
    /\ n = 1
    /\ idx = 0
    /\ ts = <<>>
    /\ content = <<>>
    /\ page = <<>>
    /\ layout_rect = None
    /\ returned = None
    /\ raised = "none"
    /\ CheckBoxIdle

Next ==
    \/ ScaleToFit
    \/ MoveTo
    \/ ComputeNorm
    \/ DrawLine
    \/ AppendToContentStream
    \/ SetBoundingBox

Spec == Init /\ [][Next]_vars

-----------------------------------------------------------------------------
(* Properties of the render *)

Terminal == pc \in {"done", "raised"}

NormComputed == pc \in {"draw", "appended", "done"} \/ (pc = "raised" /\ raised # "ValueError")

\* The true extrema of all endpoints of ls.
TrueExtrema(ls) ==
    [min_x |-> SetMin(Xs(ls)), min_y |-> SetMin(Ys(ls)),
     max_x |-> SetMax(Xs(ls)), max_y |-> SetMax(Ys(ls))]

\* C1: in a render of a non-empty shape, the interpolation parameter d / n
\* used for every segment lies in [0, 1] (it is clamped into that range
\* before it is used).
C1_ParamInUnitInterval ==
    \A j \in 1..Len(ts) : ts[j][1] >= 0 /\ ts[j][1] <= ts[j][2]

\* C2: when the norm n is 0, the render does not raise: every segment gets
\* t = 0 and from_color, and the render completes with its append and its
\* recorded bounding box.
C2_ZeroNormRendersFromColor ==
    (Terminal /\ NormComputed /\ n = 0) =>
        /\ pc = "done"
        /\ raised = "none"
        /\ Len(content) = Len(lines)
        /\ \A j \in 1..Len(content) :
              ts[j] = <<0, 1>> /\ content[j].RG.rgb = from_color
        /\ Len(page) = 1
        /\ layout_rect # None

\* The scenario of C3: (0,0)-(10,0) and (0,0)-(0,10), HORIZONTAL, red to
\* blue, into (0, 0, 100, 100).
Scenario ==
    /\ shape = << <<<<0, 0>>, <<10, 0>>>>, <<<<0, 0>>, <<0, 10>>>> >>
    /\ gradient_type = "HORIZONTAL"
    /\ from_color = <<1, 0, 0>>
    /\ to_color = <<0, 0, 1>>
    /\ bounding_box = [x |-> 0, y |-> 0, width |-> 100, height |-> 100]

\* C3: the scenario's render completes and emits two stroke commands, both
\* red; and a HORIZONTAL render gives segments with the same start x the
\* same colour.
C3_ScenarioRendersRed ==
    /\ (Scenario /\ Terminal) =>
          /\ pc = "done"
          /\ Len(content) = 2
          /\ content[1].RG.rgb = <<1, 0, 0>>
          /\ content[2].RG.rgb = <<1, 0, 0>>
    /\ (gradient_type = "HORIZONTAL" /\ pc = "done") =>
          \A i, j \in 1..Len(content) :
              lines[i][1][1] = lines[j][1][1] => content[i].RG = content[j].RG

\* C4: the extrema the render uses are the true extrema over both endpoints
\* of every segment after scale and translate.
C4_ExtremaAreTrue ==
    NormComputed => extrema = TrueExtrema(lines)

C6_RecordedFitsTarget ==
    layout_rect # None =>
        /\ layout_rect.width = <<bounding_box.width, 1>>
        /\ layout_rect.height = <<bounding_box.height, 1>>

\* C6 (amended): the rectangle a completed render records is as wide as the
\* target when the shape's original width is not 0 and of width 0 when it
\* is, and likewise for the height.
C6_RecordedExtent ==
    layout_rect # None =>
        /\ layout_rect.width =
              IF get_width(shape) = 0 THEN <<0, 1>> ELSE <<bounding_box.width, 1>>
        /\ layout_rect.height =
              IF get_height(shape) = 0 THEN <<0, 1>> ELSE <<bounding_box.height, 1>>

C6_Witness ==
    /\ pc = "done"
    /\ get_width(shape) # 0
    /\ get_height(shape) # 0
    /\ layout_rect.width = <<bounding_box.width, 1>>
    /\ layout_rect.height = <<bounding_box.height, 1>>
    /\ bounding_box.width # bounding_box.height

\* C7: a successful render returns (target.x, target.y + target.height -
\* shape.height, shape.width, shape.height) with the post-scale dimensions,
\* records the same rectangle, and every endpoint lies inside it; its top
\* left corner is the target's.
C7_ReturnedRectangle ==
    /\ (returned = None) <=> (pc # "done")
    /\ pc = "done" =>
          /\ layout_rect = returned
          /\ returned.x = <<bounding_box.x, 1>>
          /\ returned.width = Reduce(SetMax(Xs(lines)) - SetMin(Xs(lines)), den[1])
          /\ returned.height = Reduce(SetMax(Ys(lines)) - SetMin(Ys(lines)), den[2])
          /\ returned.y[1] * returned.height[2] + returned.height[1] * returned.y[2]
                = (bounding_box.y + bounding_box.height) * returned.y[2] * returned.height[2]
          /\ \A a \in Xs(lines) :
                /\ a * returned.x[2] >= returned.x[1] * den[1]
                /\ a * returned.x[2] * returned.width[2]
                      <= (returned.x[1] * returned.width[2]
                            + returned.width[1] * returned.x[2]) * den[1]
          /\ \A b \in Ys(lines) :
                /\ b * returned.y[2] >= returned.y[1] * den[2]
                /\ b <= (bounding_box.y + bounding_box.height) * den[2]

C7_Witness ==
    /\ pc = "done"
    /\ Len(lines) = 2
    /\ returned = layout_rect
    /\ returned.x = <<10, 1>>
    /\ returned.y # <<bounding_box.y, 1>>

\* C8: a successful render of k segments emits k stroke commands, the i-th
\* carrying the endpoints of the i-th segment, and appends them to the page
\* exactly once, after all k were accumulated and before the bounding box
\* is recorded.
C8_OneCommandPerSegmentOneAppend ==
    /\ Len(page) <= 1
    /\ Len(content) <= Len(lines)
    /\ \A j \in 1..Len(content) :
          /\ content[j].m = <<FormatF(lines[j][1][1], den[1]), FormatF(lines[j][1][2], den[2])>>
          /\ content[j].l = <<FormatF(lines[j][2][1], den[1]), FormatF(lines[j][2][2], den[2])>>
    /\ page # <<>> =>
          /\ page[1] = content
          /\ Len(content) = Len(lines)
          /\ pc \in {"appended", "done"}
    /\ pc = "appended" => Len(page) = 1 /\ layout_rect = None
    /\ layout_rect # None => Len(page) = 1 /\ pc = "done"
    /\ pc = "done" => Len(page) = 1 /\ layout_rect # None

C8_Witness ==
    /\ pc = "done"
    /\ Len(content) = 2
    /\ content[1].m # content[2].m
    /\ content[1].m # content[1].l
    /\ page = <<content>>

\* The square of the distance from the start of l to the centre of the true
\* bounding box of ls (unit 1 / (2 d[1] d[2])^2).
CentreDistSq(l, ls, d) == DistSq("RADIAL", TrueExtrema(ls), l, d)

\* C9: in a RADIAL render, two segments whose start points are equally far
\* from the centre of the shape's bounding box get the same stroke colour.
C9_RadialEquidistantSameColour ==
    (gradient_type = "RADIAL" /\ pc = "done") =>
        \A i, j \in 1..Len(content) :
            CentreDistSq(lines[i], lines, den) = CentreDistSq(lines[j], lines, den)
                => content[i].RG = content[j].RG

-----------------------------------------------------------------------------
(* CheckBox: _init_widget_dictionary and _paint_content_box.                *)
(*                                                                          *)
(* Dictionaries are shared by reference in the code: a page's Annots list   *)
(* and a catalog's AcroForm Fields list hold the widget dictionary itself.  *)
(* The model holds the one widget dictionary in widget_dictionary and       *)
(* writes WidgetRef for a list entry that refers to it.  Lengths are held   *)
(* in tenths, so that font_size * 1.2 is integral (the binary rounding of   *)
(* Decimal(1.2) is not modelled).                                           *)

\* The default font_size, Decimal(12).
font_size == 12

Pages == {"p1", "p2", "p3"}

Docs == {"d1", "d2"}

\* page.get_root(): the document a page belongs to.
get_root(p) == IF p = "p3" THEN "d2" ELSE "d1"

Absent == <<"absent">>

WidgetRef == "widget"

\* The content boxes of the model.
ContentBoxes ==
    {[x |-> 0, y |-> 0, width |-> 12, height |-> 20],
     [x |-> 50, y |-> 700, width |-> 10, height |-> 15]}

\* An _init_widget_dictionary without its first early return.
WidgetExists_never(w) == FALSE

\* Line 42: the widget dictionary was built by an earlier call.
WidgetExists(w) == w # None

\* Line 45: "XRef" in page.get_root().
HasXRef(p, xr) == get_root(p) \in xr

\* Lines 50-52: self._get_font_resource_name(StandardType1Font("Zapfdingbats"),
\* page), which registers the font in the page's Resources and names it.
FontResourceName(p) == [font |-> "Zapfdingbats", page |-> p]

\* Lines 54-123: the widget dictionary built for page p and layout_box.
NewWidget(p, layout_box) ==
    [Type    |-> "Annot",
     Subtype |-> "Widget",
     F       |-> 4,
     Rect    |-> <<10 * layout_box.x,
                   10 * (layout_box.y + layout_box.height - font_size - 2),
                   10 * (layout_box.x + layout_box.width),
                   10 * (layout_box.y + layout_box.height)>>,
     FT      |-> "Btn",
     P       |-> get_root(p),
     T       |-> [auto_generated_for |-> p],
     V       |-> "Yes",
     DR      |-> FontResourceName(p),
     DA      |-> [font |-> FontResourceName(p), size |-> 10 * font_size],
     AP      |-> [BBox |-> <<0, 0, 10 * layout_box.width, 10 * font_size>>]]

\* Lines 126-128 and 131-136: append to a list that is created when absent.
AppendTo(list, entry) ==
    IF list = Absent THEN <<entry>> ELSE Append(list, entry)

\* Lines 154-159: the Rect of the widget at content_box.
Located(w, content_box) ==
    LET line_height == font_size * 12
    IN  [w EXCEPT !.Rect =
            <<10 * content_box.x,
              10 * (content_box.y + content_box.height) - line_height,
              10 * (content_box.x + content_box.width),
              10 * content_box.y + line_height>>]

\* _paint_content_box(page, content_box), with the call of
\* _init_widget_dictionary it starts with.
PaintContentBox(p, content_box) ==
    /\ calls < MaxCalls
    /\ calls' = calls + 1
    /\ last_page' = p
    /\ IF WidgetExists(widget_dictionary)
       THEN \* line 43: return; then lines 155-159
            /\ widget_dictionary' = Located(widget_dictionary, content_box)
            /\ UNCHANGED <<annots, acroform, font_resources>>
       ELSE IF ~HasXRef(p, xref)
       THEN \* line 46: return; self._widget_dictionary stays None
            UNCHANGED <<widget_dictionary, annots, acroform, font_resources>>
       ELSE /\ font_resources' =
                  [font_resources EXCEPT ![p] = @ \cup {"Zapfdingbats"}]
            /\ widget_dictionary' = Located(NewWidget(p, content_box), content_box)
            /\ annots' = [annots EXCEPT ![p] = AppendTo(@, WidgetRef)]
            /\ acroform' = [acroform EXCEPT ![get_root(p)] = AppendTo(@, WidgetRef)]
    /\ UNCHANGED <<xref, gvars>>

Paint == \E p \in Pages, content_box \in ContentBoxes : PaintContentBox(p, content_box)

GradientIdle ==
    /\ shape = <<>>
    /\ lines = <<>>
    /\ den = <<1, 1>>
    /\ gradient_type = "RADIAL"
    /\ from_color = <<1, 0, 0>>
    /\ to_color = <<0, 0, 1>>
    /\ bounding_box = [x |-> 0, y |-> 0, width |-> 100, height |-> 100]
    /\ pc = "idle"
    /\ extrema = None
    /\ n = 1
    /\ idx = 0
    /\ ts = <<>>
    /\ content = <<>>
    /\ page = <<>>
    /\ layout_rect = None
    /\ returned = None
    /\ raised = "none"

\* A new CheckBox, and documents that may already hold annotations and
\* form fields of other elements.
InitCheckBox ==
    /\ widget_dictionary = None
    /\ annots \in [Pages -> {Absent, <<"other">>}]
    /\ acroform \in [Docs -> {Absent, <<"other">>}]
    /\ font_resources \in [Pages -> {{}, {"Helvetica"}}]
    /\ xref \in SUBSET Docs
    /\ last_page = None
    /\ calls = 0
    /\ GradientIdle

NextCheckBox == Paint

SpecCheckBox == InitCheckBox /\ [][NextCheckBox]_vars

\* How often entry e occurs in list (none when the list is absent).
Occurrences(list, e) ==
    IF list = Absent THEN 0
    ELSE Cardinality({j \in 1..Len(list) : list[j] = e})

RECURSIVE SumOver(_, _, _)
SumOver(f, S, e) ==
    IF S = {} THEN 0
    ELSE LET a == CHOOSE b \in S : TRUE
         IN  Occurrences(f[a], e) + SumOver(f, S \ {a}, e)

WithoutRect(w) == [w EXCEPT !.Rect = <<>>]

\* C10, the state part: without a widget no list refers to it; with one, it
\* occurs exactly once in the Annots of one page and exactly once in the
\* Fields of that page's catalog, and nowhere else.
C10_WidgetListedOnce ==
    /\ widget_dictionary = None =>
          /\ SumOver(annots, Pages, WidgetRef) = 0
          /\ SumOver(acroform, Docs, WidgetRef) = 0
    /\ widget_dictionary # None =>
          /\ SumOver(annots, Pages, WidgetRef) = 1
          /\ SumOver(acroform, Docs, WidgetRef) = 1
          /\ Occurrences(annots[widget_dictionary.T.auto_generated_for], WidgetRef) = 1
          /\ Occurrences(acroform[widget_dictionary.P], WidgetRef) = 1
          /\ get_root(widget_dictionary.T.auto_generated_for) = widget_dictionary.P
          /\ widget_dictionary.P \in xref

\* C10, the step part: the widget is created only by a call with a page
\* whose root holds an XRef, which lists it in that page's Annots and that
\* catalog's Fields; once it exists a call changes only its Rect; a call
\* with a page without XRef creates no widget and leaves pages and catalogs
\* as they are.
C10_CallEffect ==
    /\ widget_dictionary # None =>
          /\ widget_dictionary' # None
          /\ WithoutRect(widget_dictionary') = WithoutRect(widget_dictionary)
          /\ annots' = annots /\ acroform' = acroform
          /\ font_resources' = font_resources
    /\ (widget_dictionary = None /\ widget_dictionary' # None) =>
          /\ HasXRef(last_page', xref)
          /\ Occurrences(annots'[last_page'], WidgetRef) = 1
          /\ Occurrences(acroform'[get_root(last_page')], WidgetRef) = 1
          /\ \A q \in Pages \ {last_page'} : annots'[q] = annots[q]
          /\ \A d \in Docs \ {get_root(last_page')} : acroform'[d] = acroform[d]
    /\ (widget_dictionary = None /\ HasXRef(last_page', xref)) =>
          widget_dictionary' # None
    /\ ~HasXRef(last_page', xref) =>
          /\ widget_dictionary' # None <=> widget_dictionary # None
          /\ annots' = annots /\ acroform' = acroform
          /\ font_resources' = font_resources

\* C10: for any sequence of _paint_content_box calls on one CheckBox, the
\* widget dictionary is created at most once, then appears exactly once in
\* its page's Annots and once in the catalog's AcroForm Fields however many
\* calls follow, later calls change only its Rect, and a call with a page
\* whose root has no XRef creates no widget and changes no page or catalog.
C10_WidgetCreatedOnce == [](C10_WidgetListedOnce) /\ [][C10_CallEffect]_vars

C10_Witness ==
    /\ calls = 3
    /\ widget_dictionary # None
    /\ ~HasXRef(last_page, xref)
    /\ last_page # widget_dictionary.T.auto_generated_for
    /\ annots[widget_dictionary.T.auto_generated_for] = <<"other", WidgetRef>>
    /\ acroform[widget_dictionary.P] = <<"other", WidgetRef>>
    /\ widget_dictionary.Rect[1] = 500
    /\ widget_dictionary.AP.BBox[3] = 120

=============================================================================
